---- MODULE Spec2Model ----
(***************************************************************************)
(* The catalog ETL of store/catalog_etl/electronics: the best_buy product  *)
(* pipeline (bb_etl.py), the supplier inventory import                    *)
(* (import_inventory.py, clean_inventory.py) and the inventory merge       *)
(* statement (suppliers_sql.py).                                           *)
(*                                                                         *)
(* A table cell is a record [k, s, n]: k = "nan" is a missing value (JSON  *)
(* null, None, NaN), k = "str" a string s, k = "num" a number whose value  *)
(* is n tenths (n = 25 is 2.5), so that a fractional value and its         *)
(* truncation by an integer cast are both representable.                   *)
(*                                                                         *)
(* Run as a script, bb_etl.py ends at line 17, which calls                 *)
(* configure_logging before the def of line 40 has bound it, and           *)
(* import_inventory.py ends before its first statement, because the        *)
(* indentation of line 101, inside load, fits no enclosing block. The      *)
(* functions of both files are therefore also started on their own, each   *)
(* on inputs drawn from a bounded set, with the module's names logger and  *)
(* conn bound: of bb_etl.py extract, followed by the statements of         *)
(* __main__ that come after it (lines 269-306), validate followed by line  *)
(* 306, and load; of import_inventory.py get_inventory_data, validate and  *)
(* load, the last of which no compiler accepts. Of a logged event only     *)
(* its type is kept.                                                       *)
(***************************************************************************)
EXTENDS Naturals, Integers, Sequences, FiniteSets, TLC

VARIABLES
    data_directory,  \* [exists, files]: the day's directory and its listing
    environ,         \* the environment variables that are set
    Electronics,     \* [exists, rows]: the destination table, as committed
    Inventory,       \* rows of the Inventory table, as committed
    implicit_commit, \* the server commits a TRUNCATE at once
    entry,           \* what was started: the script or one of its functions
    pc,              \* the statement that is next
    conn,            \* "none", "open" or "closed": the module-level connection
    connects,        \* connections made at line 37 for the current run
    products,        \* the table extract returned, then the one transform returned
    raw,             \* the table extract returned, kept for reference
    validated,       \* validate has returned for the current run
    issued,          \* SQL statements the current run has executed, in order
    txn,             \* rows inserted in the connection's open transaction
    truncated,       \* a TRUNCATE is pending in the open transaction
    committed,       \* conn.commit() has returned in the current run
    log,             \* the types of the events logged by the current run
    err,             \* the exception that ended the current run, or "none"
    run,             \* the number of the current run
    before,          \* Electronics when the current run started
    ended,           \* one record per finished run: how it ended and what it left
    mergeStatus,     \* outcome of the last UPDATE_INVENTORY statement
    now,             \* the database server's clock, in seconds
    INVENTORY_FILE,  \* [exists, columns, lines]: the supplier's CSV file
    inv_entry,       \* what of import_inventory.py was started, "none" when nothing
    inv_pc,          \* "idle", "call" when it is about to run, "exit" when it ended
    inv_read,        \* the table clean_inventory_data was given
    inv_data,        \* data: the table a function was given or has returned
    inv_conn,        \* "open" once line 95 has connected, "none" before
    inv_log,         \* the types of the events it has logged
    inv_issued,      \* SQL statements its load has executed, in order
    inv_err,         \* the exception that ended it, or "none"
    inv_before       \* the Inventory rows when it started

\* The state of import_inventory.py
inv_vars == <<INVENTORY_FILE, inv_entry, inv_pc, inv_read, inv_data, inv_conn,
              inv_log,
              inv_issued, inv_err, inv_before>>

\* What a run is started on, which no statement of bb_etl.py changes.
given == <<data_directory, environ, Inventory, implicit_commit, entry>>

vars == <<given, Electronics, pc, conn, connects, products, raw, validated,
          issued, txn, truncated, committed, log, err, run, before, ended,
          mergeStatus, now, inv_vars>>

-----------------------------------------------------------------------------
(* Bounds of the model *)

MaxFiles == 2
MaxRuns == 2

-----------------------------------------------------------------------------
(* Cells and sequences *)

NaN == [k |-> "nan", s |-> "", n |-> 0]
Str(x) == [k |-> "str", s |-> x, n |-> 0]
Num(t) == [k |-> "num", s |-> "", n |-> t]
Whole(v) == Num(10 * v)
CastError == [k |-> "err", s |-> "", n |-> 0]

isna(c) == c.k = "nan"

Range(q) == {q[i] : i \in DOMAIN q}

\* The rows of q whose index is in idx, in order, reindexed from 1
\* (boolean indexing followed by reset_index(drop=True)).
RECURSIVE TakeUpTo(_, _, _)
TakeUpTo(q, idx, i) ==
    IF i = 0 THEN <<>>
    ELSE IF i \in idx THEN Append(TakeUpTo(q, idx, i - 1), q[i])
    ELSE TakeUpTo(q, idx, i - 1)

reset_index(q, idx) == TakeUpTo(q, idx, Len(q))

\* Strings that float() and int() parse, with their value in tenths.
Numerals == [x \in {"7", "2.5"} |-> IF x = "7" THEN 70 ELSE 25]

Trunc(n) == IF n >= 0 THEN (n \div 10) * 10 ELSE 0 - (((0 - n) \div 10) * 10)

-----------------------------------------------------------------------------
(* The configuration of __main__ *)

column_subset ==
    {"brand", "sku", "categoryName", "highResImage", "regularPrice",
     "salePrice", "shortDescription", "customerRating",
     "customerRatingCount", "customerReviewCount", "productUrl"}

\* column_subset as the list of lines 264-268: extract's frame has its
\* columns in this order.
column_subset_items ==
    <<"brand", "sku", "categoryName", "highResImage", "regularPrice",
      "salePrice", "shortDescription", "customerRating",
      "customerRatingCount", "customerReviewCount", "productUrl">>

\* The keys of dtypes in the order of lines 272-284, the order in which
\* dtypes.items() yields them.
dtypes_items ==
    <<"brand", "sku", "categoryName", "imageUrl", "regularPrice",
      "salePrice", "description", "customerRating", "customerRatingCount",
      "customerReviewCount", "productUrl">>

dtypes ==
    [brand |-> "object", sku |-> "object", categoryName |-> "object",
     imageUrl |-> "object", regularPrice |-> "float64",
     salePrice |-> "float64", description |-> "object",
     customerRating |-> "float64", customerRatingCount |-> "int32",
     customerReviewCount |-> "int32", productUrl |-> "object"]

column_map ==
    << <<"brand", "Brand">>, <<"sku", "PartNumber">>,
       <<"categoryName", "Category">>, <<"imageUrl", "ImageUrl">>,
       <<"regularPrice", "RegularPrice">>, <<"salePrice", "SalePrice">>,
       <<"description", "Description">>,
       <<"customerRating", "CustomerRating">>,
       <<"customerRatingCount", "CustomerRatingCount">>,
       <<"customerReviewCount", "CustomerReviewCount">>,
       <<"productUrl", "SourceUrl">> >>

RequiredEnv ==
    {"PDB_DRIVER", "PDB_HOST", "PDB_DATABASE", "PDB_PRODUCT_TABLE",
     "PDB_USERNAME", "PDB_PASSWORD"}


-----------------------------------------------------------------------------
(* extract *)

\* read_json: the pair (brand, results) of a file that parses, and the
\* empty list (after logging a "parse" event) of one that does not.
read_json(file) ==
    IF file.parses THEN <<file.brand, file.results>> ELSE <<>>

\* What read_json logs: logger.error on the except path.
read_json_logs(file) == IF file.parses THEN {} ELSE {"parse"}

\* pd.DataFrame.from_dict(results): one column per key that some record
\* carries, a missing value where a record lacks the key.
from_dict(results) ==
    LET cols == UNION {DOMAIN results[i] : i \in DOMAIN results}
    IN [columns |-> cols,
        rows |-> [i \in DOMAIN results |->
                    [c \in cols |-> IF c \in DOMAIN results[i]
                                    THEN results[i][c] ELSE NaN]]]

\* df['brand'] = value
set_brand(df, value) ==
    [columns |-> df.columns \cup {"brand"},
     rows |-> [i \in DOMAIN df.rows |->
                 [c \in df.columns \cup {"brand"} |->
                    IF c = "brand" THEN value ELSE df.rows[i][c]]]]

\* df[subset]: the projection, defined when every label is a column.
project(df, subset) ==
    [columns |-> subset,
     rows |-> [i \in DOMAIN df.rows |-> [c \in subset |-> df.rows[i][c]]]]

\* pd.concat([a, b]).reset_index(drop=True)
concat(a, b) ==
    LET cols == a.columns \cup b.columns
        widen(r) == [c \in cols |-> IF c \in DOMAIN r THEN r[c] ELSE NaN]
    IN [columns |-> cols,
        rows |-> [i \in DOMAIN a.rows |-> widen(a.rows[i])]
                 \o [i \in DOMAIN b.rows |-> widen(b.rows[i])]]

Raised(e, logged) ==
    [status |-> e, logged |-> logged, columns |-> {}, rows |-> <<>>]

\* The dtype pandas gives column c of rows (from_dict at lines 79 and 174,
\* concat at line 85): object when a value is a string or none is present,
\* int64 for whole numbers with none missing, float64 for other numbers.
\* A whole number is one the file writes without a fraction.
infer_dtype(rows, c) ==
    IF \E i \in DOMAIN rows : rows[i][c].k = "str" THEN "object"
    ELSE IF \A i \in DOMAIN rows : isna(rows[i][c]) THEN "object"
    ELSE IF \E i \in DOMAIN rows : isna(rows[i][c]) \/ rows[i][c].n % 10 # 0
    THEN "float64"
    ELSE "int64"

\* The dtypes of the frame extract returns: those of the values it
\* holds, and those of the template when it holds no row.
frame_dtypes(files, frame) ==
    LET first == set_brand(from_dict(read_json(files[1])[2]), NaN)
    IN [c \in frame.columns |->
          IF Len(frame.rows) > 0 THEN infer_dtype(frame.rows, c)
          ELSE infer_dtype(first.rows, c)]

\* get_template: the first listed file's frame, with a brand column and no
\* rows. The file is read whatever its name.
get_template(files) ==
    IF Len(files) = 0 THEN Raised("IndexError", {})
    ELSE LET got == read_json(files[1])
         IN IF Len(got) # 2
            THEN Raised("ValueError", read_json_logs(files[1]))
            ELSE LET t == set_brand(from_dict(got[2]), NaN)
                 IN [status |-> "ok", logged |-> {},
                     columns |-> t.columns, rows |-> <<>>]

\* The loop of extract with a projection that fills a column the frame
\* lacks with missing values instead of raising.
RECURSIVE extract_loop_reindexed(_, _, _, _)
extract_loop_reindexed(files, i, frame, subset) ==
    IF i > Len(files)
    THEN [status |-> "ok", logged |-> {},
          columns |-> frame.columns, rows |-> frame.rows]
    ELSE IF ~files[i].json
    THEN extract_loop_reindexed(files, i + 1, frame, subset)
    ELSE LET got == read_json(files[i])
         IN IF Len(got) # 2
            THEN Raised("ValueError", read_json_logs(files[i]))
            ELSE LET results_df == set_brand(from_dict(got[2]), got[1])
                     filled == [columns |-> subset,
                                rows |-> [k \in DOMAIN results_df.rows |->
                                    [c \in subset |->
                                        IF c \in results_df.columns
                                        THEN results_df.rows[k][c]
                                        ELSE NaN]]]
                 IN extract_loop_reindexed(files, i + 1,
                        concat(frame, IF subset # {} THEN filled
                                      ELSE results_df),
                        subset)

\* The loop of extract over files[i..], products being the frame so far.
RECURSIVE extract_loop(_, _, _, _)
extract_loop(files, i, frame, subset) ==
    IF i > Len(files)
    THEN [status |-> "ok", logged |-> {},
          columns |-> frame.columns, rows |-> frame.rows]
    ELSE IF ~files[i].json THEN extract_loop(files, i + 1, frame, subset)
    ELSE LET got == read_json(files[i])
         IN IF Len(got) # 2
            THEN Raised("ValueError", read_json_logs(files[i]))
            ELSE LET results_df == set_brand(from_dict(got[2]), got[1])
                 IN IF subset # {} /\ ~(subset \subseteq results_df.columns)
                    THEN Raised("KeyError", {})
                    ELSE extract_loop(files, i + 1,
                            concat(frame,
                                   IF subset # {}
                                   THEN project(results_df, subset)
                                   ELSE results_df),
                            subset)

extract(files, subset) ==
    LET t == get_template(files)
        got == extract_loop(files, 1,
                   IF subset # {} THEN project(t, subset) ELSE t, subset)
    IN IF t.status # "ok" THEN t
       ELSE IF subset # {} /\ ~(subset \subseteq t.columns)
       THEN Raised("KeyError", {})
       ELSE IF got.status # "ok" THEN got
       ELSE [status |-> "ok", logged |-> got.logged,
             columns |-> got.columns, rows |-> got.rows,
             dtypes |-> frame_dtypes(files, got)]

-----------------------------------------------------------------------------
(* transform *)

\* drop_duplicates with keep='last'.
drop_duplicates_last(rows, subset) ==
    reset_index(rows,
        {i \in DOMAIN rows :
            \A j \in (i + 1)..Len(rows) :
                \E c \in subset : rows[j][c] # rows[i][c]})

\* drop_duplicates(subset=...): a row stays unless an earlier row agrees
\* with it on every column of the subset (keep='first').
drop_duplicates(rows, subset) ==
    reset_index(rows,
        {i \in DOMAIN rows :
            \A j \in 1..(i - 1) : \E c \in subset : rows[j][c] # rows[i][c]})

\* dropna with how='all'.
dropna_all(rows, subset) ==
    reset_index(rows,
        {i \in DOMAIN rows : \E c \in subset : ~isna(rows[i][c])})

\* dropna(subset=..., how='any')
dropna(rows, subset) ==
    reset_index(rows,
        {i \in DOMAIN rows : \A c \in subset : ~isna(rows[i][c])})

\* data[column] = data[column].fillna(value)
fillna(rows, column, value) ==
    [i \in DOMAIN rows |->
        [rows[i] EXCEPT ![column] = IF isna(@) THEN value ELSE @]]

fill_missing(rows) ==
    fillna(fillna(fillna(fillna(fillna(fillna(rows,
        "salePrice", Whole(99999)),
        "shortDescription", Str("")),
        "categoryName", Str("Other")),
        "customerRating", Whole(0)),
        "customerRatingCount", Whole(0)),
        "customerReviewCount", Whole(0))

rename_dict == [imageUrl |-> "highResImage", description |-> "shortDescription"]

\* data.rename(columns=rename_dict), the dictionary read from new name to old
rename(rows, columns) ==
    LET old(c) == IF c \in DOMAIN rename_dict THEN rename_dict[c] ELSE c
        new == {c \in columns : c \notin Range(rename_dict)}
                 \cup {c \in DOMAIN rename_dict : rename_dict[c] \in columns}
    IN [i \in DOMAIN rows |-> [c \in new |-> rows[i][old(c)]]]

\* One value cast by Series.astype(dtype); CastError when the cast raises.
astype(c, dtype) ==
    CASE dtype = "object" -> c
      [] dtype = "float64" ->
            IF c.k = "str"
            THEN IF c.s \in DOMAIN Numerals THEN Num(Numerals[c.s])
                 ELSE CastError
            ELSE c
      [] dtype = "int32" ->
            IF c.k = "nan" THEN CastError
            ELSE IF c.k = "str"
            THEN IF c.s \in DOMAIN Numerals /\ Numerals[c.s] % 10 = 0
                 THEN Num(Numerals[c.s]) ELSE CastError
            ELSE Num(Trunc(c.n))
      [] OTHER -> CastError

set_dtypes(rows, types) ==
    [i \in DOMAIN rows |->
        [c \in DOMAIN rows[i] |->
            IF c \in DOMAIN types THEN astype(rows[i][c], types[c])
            ELSE rows[i][c]]]

\* The columns transform names before the cast loop (lines 118-127).
transform_reads ==
    {"brand", "sku", "salePrice", "highResImage", "shortDescription",
     "categoryName", "customerRating", "customerRatingCount",
     "customerReviewCount"}

\* Lines 122-140 of transform, on the rows kept by lines 118-121: the
\* fills, the rename, and the cast loop, which takes the keys of dtypes in
\* order and stops at the first column that is absent (KeyError) or whose
\* cast fails (ValueError). A column dtypes does not name is not cast and
\* keeps the dtype it came with.
transform_tail(kept, data, types) ==
    LET renamed == rename(fill_missing(kept), data.columns)
        new_name(c) == IF \E n \in DOMAIN rename_dict : rename_dict[n] = c
                       THEN CHOOSE n \in DOMAIN rename_dict : rename_dict[n] = c
                       ELSE c
        old_name(c) == IF c \in DOMAIN rename_dict THEN rename_dict[c] ELSE c
        cols == {new_name(c) : c \in data.columns}
        items == SelectSeq(dtypes_items, LAMBDA c : c \in DOMAIN types)
        fails(c) == \/ c \notin cols
                    \/ \E i \in DOMAIN renamed :
                          astype(renamed[i][c], types[c]) = CastError
        failing == {k \in DOMAIN items : fails(items[k])}
        first == CHOOSE k \in failing : \A l \in failing : k <= l
        raised(e) == [status |-> e, columns |-> {}, order |-> <<>>,
                      dtypes |-> <<>>, rows |-> <<>>]
    IN IF failing # {}
       THEN raised(IF items[first] \notin cols THEN "KeyError"
                   ELSE "ValueError")
       ELSE [status |-> "ok", columns |-> cols,
             order |-> [k \in DOMAIN data.order |-> new_name(data.order[k])],
             dtypes |-> [c \in cols |-> IF c \in DOMAIN types THEN types[c]
                                        ELSE data.dtypes[old_name(c)]],
             rows |-> set_dtypes(renamed, types)]

\* transform with lines 118 and 121 exchanged: incomplete rows are dropped
\* before the duplicates are.
transform_dropna_first(data, types) ==
    IF ~(transform_reads \subseteq data.columns)
    THEN [status |-> "KeyError", columns |-> {}, order |-> <<>>,
          dtypes |-> <<>>, rows |-> <<>>]
    ELSE transform_tail(
            drop_duplicates(
                dropna(data.rows,
                       {"brand", "sku", "salePrice", "highResImage"}),
                {"brand", "sku"}),
            data, types)

\* transform: a column that lines 118-127 name and the table lacks raises
\* KeyError there, before the cast loop.
transform(data, types) ==
    IF ~(transform_reads \subseteq data.columns)
    THEN [status |-> "KeyError", columns |-> {}, order |-> <<>>,
          dtypes |-> <<>>, rows |-> <<>>]
    ELSE transform_tail(
            dropna(drop_duplicates(data.rows, {"brand", "sku"}),
                   {"brand", "sku", "salePrice", "highResImage"}),
            data, types)

-----------------------------------------------------------------------------
(* validate *)

\* validate without its assert.
validate_unchecked(data, types) == "ok"

\* The loop of validate, over the columns in their order: "ok" when every
\* column's runtime type is the declared one, otherwise the exception of
\* the first column that fails: KeyError for a column dtypes does not
\* name, AssertionError for one of another type.
validate(data, types) ==
    LET fails(c) == c \notin DOMAIN types \/ types[c] # data.dtypes[c]
        failing == {k \in DOMAIN data.order : fails(data.order[k])}
        first == CHOOSE k \in failing : \A l \in failing : k <= l
    IN IF failing = {} THEN "ok"
       ELSE IF data.order[first] \notin DOMAIN types THEN "KeyError"
       ELSE "AssertionError"

-----------------------------------------------------------------------------
(* load and the destination database *)

\* The columns of CREATE_PRODUCT_TABLE.
ElectronicsColumns ==
    {"id", "Brand", "PartNumber", "Category", "ImageUrl", "RegularPrice",
     "SalePrice", "Description", "CustomerRating", "CustomerRatingCount",
     "CustomerReviewCount", "SourceUrl", "Quantity", "CreatedOn"}

\* A table whose Quantity column has no default.
column_default_null(c, timestamp) ==
    IF c = "CreatedOn" THEN Whole(timestamp) ELSE NaN

\* The value a column takes when INSERT does not name it: the DEFAULT of
\* its declaration, CURRENT_TIMESTAMP being the second of the server's
\* clock at which the row is stored.
column_default(c, timestamp) ==
    CASE c = "Quantity" -> Whole(99999)
      [] c = "CreatedOn" -> Whole(timestamp)
      [] OTHER -> NaN

\* id int AUTO_INCREMENT: the id of the first row stored in a table that
\* holds rows and has inserts pending; TRUNCATE restarts the count.
auto_increment(rows, pending) == Len(rows) + Len(pending) + 1

data_columns == {column_map[j][1] : j \in DOMAIN column_map}

\* insert_params: one tuple per row, in the order of column_map.
insert_params(data) ==
    [i \in DOMAIN data.rows |->
        [j \in DOMAIN column_map |-> data.rows[i][column_map[j][1]]]]

\* The row INSERT INTO t (table_columns) VALUES (?, ...) stores for
\* params, with the id the table generates and at the given second.
inserted_row(params, id, timestamp) ==
    [c \in ElectronicsColumns |->
        IF \E j \in DOMAIN column_map : column_map[j][2] = c
        THEN params[CHOOSE j \in DOMAIN column_map : column_map[j][2] = c]
        ELSE IF c = "id" THEN Whole(id)
        ELSE column_default(c, timestamp)]

\* A server that accepts TRUNCATE for a table it does not have.
truncate_outcomes_unchecked(table) == {"ok", "Error"}

\* What cursor.execute(truncate_sql) can do: raise ProgrammingError when
\* the table is absent, otherwise succeed or fail with another error.
truncate_outcomes(table) ==
    IF table.exists THEN {"ok", "Error"} ELSE {"ProgrammingError"}

\* What cursor.executemany(insert_sql, params) can do: with no parameter
\* sets pyodbc raises ProgrammingError at once; otherwise it sends one
\* INSERT per tuple and either sends them all or fails at tuple k + 1.
insert_outcomes(n) ==
    IF n = 0 THEN {[result |-> "ProgrammingError", sent |-> 0]}
    ELSE {[result |-> "ok", sent |-> n]}
         \cup {[result |-> e, sent |-> k] :
                 e \in {"ProgrammingError", "Error"}, k \in 0..(n - 1)}

\* TRUNCATE TABLE t, executed on a connection with autocommit off. The
\* server is chosen by PDB_DRIVER: on one where TRUNCATE commits at once
\* (implicit) the table holds no row from then on; on one where TRUNCATE
\* belongs to the open transaction the table is as it was until the
\* commit, and the statement is undone when the run ends without one.
sql_truncate(table, implicit) ==
    IF implicit THEN [table |-> [table EXCEPT !.rows = <<>>],
                      truncated |-> FALSE]
    ELSE [table |-> table, truncated |-> TRUE]

\* INSERT on a connection with autocommit on: the rows are stored at once.
sql_insert_autocommit(table, tx, rows) ==
    [table |-> [table EXCEPT !.rows = @ \o rows], txn |-> tx]

\* INSERT of rows on a connection opened by pyodbc.connect(connection_string)
\* (line 37: autocommit is off): the rows join the open transaction tx and
\* the table is as it was.
sql_insert(table, tx, rows) == [table |-> table, txn |-> tx \o rows]

\* conn.commit(): the transaction takes effect, a pending TRUNCATE first
\* and then the rows inserted.
sql_commit(table, tx, pending) ==
    [table EXCEPT !.rows = (IF pending THEN <<>> ELSE @) \o tx]

\* The except clauses of load: a ProgrammingError is logged and raised
\* again as Exception, any other error leaves load as it is.
load_raises(e) == IF e = "ProgrammingError" THEN "Exception" ELSE e

-----------------------------------------------------------------------------
(* The inventory merge statement *)

UPDATE_INVENTORY ==
    [target |-> "Electronics", alias |-> "e",
     joined |-> "Inventory", joinAlias |-> "inv",
     on |-> {"Brand", "PartNumber"},
     setColumn |-> "Quantity", fromAlias |-> "b", fromColumn |-> "Quantity"]

\* The integer a varchar holds, as the SET of an int column converts it.
sql_int(c) ==
    IF c.k = "str"
    THEN IF c.s \in DOMAIN Numerals THEN Num(Trunc(Numerals[c.s])) ELSE Whole(0)
    ELSE c

\* UPDATE target AS alias INNER JOIN joined AS joinAlias ON ... SET ...:
\* the statement is rejected when the SET names an alias that the
\* statement does not declare; otherwise every target row that joins gets
\* the value of the first joined row.
exec_update_join(stmt, target, joined) ==
    IF stmt.fromAlias \notin {stmt.alias, stmt.joinAlias}
    THEN [status |-> "error", rows |-> target]
    ELSE LET match(e) == {i \in DOMAIN joined :
                             \A c \in stmt.on : joined[i][c] = e[c]}
             first(e) == CHOOSE i \in match(e) : \A j \in match(e) : i <= j
             value(e) == IF stmt.fromAlias = stmt.joinAlias
                         THEN sql_int(joined[first(e)][stmt.fromColumn])
                         ELSE e[stmt.fromColumn]
         IN [status |-> "ok",
             rows |-> [i \in DOMAIN target |->
                         IF match(target[i]) = {} THEN target[i]
                         ELSE [target[i] EXCEPT
                                 ![stmt.setColumn] = value(target[i])]]]

-----------------------------------------------------------------------------
(* The inputs the model draws from *)

Rec(sku, price, img, desc, cat, rating, rcount, vcount) ==
    [sku |-> sku, categoryName |-> cat, highResImage |-> img,
     regularPrice |-> Whole(250), salePrice |-> price,
     shortDescription |-> desc, customerRating |-> rating,
     customerRatingCount |-> rcount, customerReviewCount |-> vcount,
     productUrl |-> Str("p")]

Without(r, key) == [c \in DOMAIN r \ {key} |-> r[c]]

full_A1 == Rec(Str("A1"), Num(1999), Str("u.jpg"), Str("d"), Str("TV"),
               Num(45), Whole(3), Whole(2))
later_A1 == Rec(Str("A1"), Num(1499), Str("v.jpg"), Str("e"), NaN,
                Num(40), Whole(4), NaN)
soft_A2 == Rec(Str("A2"), Num(1999), Str("u.jpg"), NaN, NaN, NaN, NaN, NaN)
noprice_A1 == Rec(Str("A1"), NaN, Str("u.jpg"), Str("d"), Str("TV"),
                  Num(45), Whole(3), Whole(2))
noimage_A3 == Rec(Str("A3"), Num(990), NaN, NaN, Str("TV"), NaN, NaN, NaN)
nosku == Rec(NaN, Num(990), Str("u.jpg"), Str("d"), Str("TV"),
             Num(45), Whole(3), Whole(2))
fraction_A4 == Rec(Str("A4"), Num(990), Str("u.jpg"), Str("d"), Str("TV"),
                   Num(45), Num(25), Whole(2))
badprice_A5 == Rec(Str("A5"), Str("abc"), Str("u.jpg"), Str("d"), Str("TV"),
                   Num(45), Whole(3), Whole(2))

JsonFile(brand, results) ==
    [json |-> TRUE, parses |-> TRUE, brand |-> brand, results |-> results]

Files ==
    { JsonFile(Str("ACER"), <<full_A1, soft_A2>>),
      JsonFile(Str("ACER"), <<noprice_A1, later_A1>>),
      JsonFile(NaN, <<full_A1>>),
      JsonFile(Str("HP"), <<nosku, noimage_A3, fraction_A4>>),
      JsonFile(Str("HP"), <<badprice_A5>>),
      JsonFile(Str("ACER"), <<>>),
      JsonFile(Str("ACER"), <<Without(soft_A2, "customerRating")>>),
      [json |-> TRUE, parses |-> FALSE, brand |-> NaN, results |-> <<>>],
      [json |-> FALSE, parses |-> FALSE, brand |-> NaN, results |-> <<>>] }

Listings == UNION {[1..n -> Files] : n \in 0..MaxFiles}

\* A row an earlier load stored, at second 0.
StoredRow(id, brand, sku, quantity) ==
    [c \in ElectronicsColumns |->
        CASE c = "id" -> Whole(id)
          [] c = "CreatedOn" -> Whole(0)
          [] c = "Brand" -> Str(brand)
          [] c = "PartNumber" -> Str(sku)
          [] c = "Quantity" -> quantity
          [] c = "ImageUrl" -> Str("old.jpg")
          [] c = "SalePrice" -> Num(1000)
          [] OTHER -> NaN]

Tables ==
    { [exists |-> FALSE, rows |-> <<>>],
      [exists |-> TRUE, rows |-> <<StoredRow(1, "ACER", "A1", Whole(5))>>],
      [exists |-> TRUE, rows |-> <<StoredRow(1, "ACER", "A1", Whole(99999)),
                                   StoredRow(2, "HP", "Z9", Whole(4))>>] }

InventoryRow(brand, sku, quantity) ==
    [Brand |-> Str(brand), PartNumber |-> Str(sku), Quantity |-> Str(quantity),
     Discontinued |-> Str("0"), Source |-> Str("s")]

Inventories == { <<InventoryRow("ACER", "A1", "7")>> }

Environments == { RequiredEnv, RequiredEnv \ {"PDB_PRODUCT_TABLE"} }

Directories ==
    { [exists |-> FALSE, files |-> <<>>] }
      \cup { [exists |-> TRUE, files |-> f] : f \in Listings }

NoTable ==
    [status |-> "none", columns |-> {}, order |-> <<>>, dtypes |-> <<>>,
     rows |-> <<>>]

-----------------------------------------------------------------------------
(* import_inventory.py and clean_inventory.py *)

\* Python's None, where a table is expected.
None ==
    [status |-> "None", columns |-> {}, order |-> <<>>, dtypes |-> <<>>,
     rows |-> <<>>]

\* clean_inventory_data: the body is pass, so the call returns None.
clean_inventory_data(data) == None

\* get_inventory_data: the exception the call ends with. A file that does
\* not exist gives the Exception of line 51; for one that exists line 53
\* reads pd, which the module never imports.
get_inventory_data(file) ==
    IF ~file.exists THEN "Exception" ELSE "NameError"

\* What get_inventory_data logs: logger.error at line 50, when no file is
\* at the path.
get_inventory_data_logs(file) == IF ~file.exists THEN {"directory"} ELSE {}

\* validate of import_inventory.py (lines 63-80): the columns are walked
\* in order and the first one that types does not name (KeyError) or
\* that has another dtype (AssertionError) ends the call.
inventory_validate(data, types) ==
    LET fails(c) == c \notin DOMAIN types \/ types[c] # data.dtypes[c]
        failing == {k \in DOMAIN data.order : fails(data.order[k])}
        first == CHOOSE k \in failing : \A l \in failing : k <= l
    IN IF failing = {} THEN "ok"
       ELSE IF data.order[first] \notin DOMAIN types THEN "KeyError"
       ELSE "AssertionError"

\* What validate logs: an event for every column it reaches (line 77).
inventory_validate_logs(data) ==
    IF data.order = <<>> THEN {} ELSE {"validation"}

\* dtypes of __main__ (lines 147-153)
inventory_dtypes ==
    [brand |-> "object", sku |-> "object", inventory |-> "int32",
     discontinued |-> "int32", source |-> "object"]

\* The variables lines 133-143 read.
InventoryRequiredEnv ==
    {"PDB_DRIVER", "PDB_HOST", "PDB_DATABASE", "PDB_INVENTORY_TABLE",
     "PDB_USERNAME", "PDB_PASSWORD", "INVENTORY_FILE"}

CsvLine(brand, sku, inventory, discontinued) ==
    [brand |-> brand, sku |-> sku, inventory |-> inventory,
     discontinued |-> discontinued, source |-> "s"]

CsvFile(lines) ==
    [exists |-> TRUE,
     columns |-> {"brand", "sku", "inventory", "discontinued", "source"},
     lines |-> lines]

NoFile == [exists |-> FALSE, columns |-> {}, lines |-> <<>>]

InventoryFiles ==
    { NoFile,
      CsvFile(<<>>),
      CsvFile(<<CsvLine("ACER", "A1", "7", "0")>>),
      CsvFile(<<CsvLine("ACER", "A1", "7", "0"),
                CsvLine("HP", "Z9", "2.5", "")>>) }

\* A table of the declared types, as a caller hands it to
\* clean_inventory_data or to load.
InventoryFrame(columns, rows) ==
    [status |-> "ok", columns |-> columns,
     order |-> SelectSeq(<<"brand", "sku", "inventory", "discontinued",
                           "source">>, LAMBDA c : c \in columns),
     dtypes |-> [c \in columns |-> inventory_dtypes[c]],
     rows |-> [i \in DOMAIN rows |-> [c \in columns |-> rows[i][c]]]]

FrameRow(brand, sku, inventory) ==
    [brand |-> Str(brand), sku |-> Str(sku), inventory |-> Whole(inventory),
     discontinued |-> Whole(0), source |-> Str("s")]

InventoryFrames ==
    { InventoryFrame(DOMAIN inventory_dtypes, <<>>),
      InventoryFrame(DOMAIN inventory_dtypes, <<FrameRow("ACER", "A1", 7)>>),
      InventoryFrame(DOMAIN inventory_dtypes,
                     <<FrameRow("ACER", "A1", 3), FrameRow("HP", "Z9", 0)>>),
      InventoryFrame(DOMAIN inventory_dtypes \ {"source"},
                     <<FrameRow("ACER", "A1", 7)>>) }

StoredInventories ==
    { <<>>,
      <<InventoryRow("ACER", "A1", "7")>>,
      <<InventoryRow("ACER", "A1", "0"), InventoryRow("HP", "Z9", "7")>> }

InventoryEnvironments ==
    { InventoryRequiredEnv, InventoryRequiredEnv \ {"INVENTORY_FILE"} }

-----------------------------------------------------------------------------
(* bb_etl.py: the script and its functions, one run after another *)

\* The frame extract returns for column_subset, as __main__ holds it.
Extracted(got) ==
    [status |-> "raw", columns |-> got.columns, order |-> column_subset_items,
     dtypes |-> got.dtypes, rows |-> got.rows]

\* Lines 269-287 on a listing: what transform returns for what extract
\* returns, or the failure of the one that raises.
Pipeline(files) ==
    LET got == extract(files, column_subset)
    IN IF got.status # "ok"
       THEN [status |-> got.status, columns |-> {}, order |-> <<>>,
             dtypes |-> <<>>, rows |-> <<>>]
       ELSE transform(Extracted(got), dtypes)

GateBase == Pipeline(<<JsonFile(Str("ACER"), <<full_A1, soft_A2>>)>>)

Retyped(t, c, d) == [t EXCEPT !.dtypes[c] = d]

\* t[c] = "u": a new column is the last one.
WithColumn(t, c) ==
    [status |-> t.status,
     columns |-> t.columns \cup {c},
     order |-> Append(t.order, c),
     dtypes |-> [x \in t.columns \cup {c} |->
                   IF x = c THEN "object" ELSE t.dtypes[x]],
     rows |-> [i \in DOMAIN t.rows |->
                 [x \in t.columns \cup {c} |->
                    IF x = c THEN Str("u") ELSE t.rows[i][x]]]]

\* The typed tables validate is called on.
GateTables ==
    { GateBase,
      Retyped(GateBase, "customerRatingCount", "int64"),
      Retyped(GateBase, "customerReviewCount", "float64"),
      Retyped(GateBase, "salePrice", "object"),
      Retyped(GateBase, "regularPrice", "int64"),
      WithColumn(GateBase, "upc"),
      Retyped(WithColumn(GateBase, "upc"), "salePrice", "object") }

\* del t[c]
DropColumn(t, c) ==
    [status |-> t.status,
     columns |-> t.columns \ {c},
     order |-> SelectSeq(t.order, LAMBDA x : x # c),
     dtypes |-> [x \in t.columns \ {c} |-> t.dtypes[x]],
     rows |-> [i \in DOMAIN t.rows |->
                 [x \in t.columns \ {c} |-> t.rows[i][x]]]]

\* The listings whose table lines 269-290 let through.
Loadable(files) ==
    /\ Pipeline(files).status = "ok"
    /\ validate(Pipeline(files), dtypes) = "ok"

\* The tables load is called on: what transform returned for the listing,
\* and the same without a column that column_map names (validate reads
\* the columns the table has and lets it through).
LoadTables(files) ==
    { Pipeline(files), DropColumn(Pipeline(files), "productUrl") }

\* The statement a run starts at.
StartOf(e) ==
    CASE e = "script" -> "start"
      [] e = "extract" -> "extract"
      [] e = "validate" -> "validate"
      [] e = "load" -> "truncate"

\* import_inventory.py is not run.
ImportIdle ==
    /\ INVENTORY_FILE = NoFile
    /\ inv_entry = "none"
    /\ inv_pc = "idle"
    /\ inv_read = NoTable
    /\ inv_data = NoTable
    /\ inv_conn = "none"
    /\ inv_log = {}
    /\ inv_issued = <<>>
    /\ inv_err = "none"
    /\ inv_before = Inventory

\* Started is the script (python bb_etl.py), or extract on a directory
\* that exists, or validate on a typed table, or load on a table that
\* validate lets through; a function is started with the module's
\* connection open. The server matters to load alone.
Init ==
    /\ Electronics \in Tables
    /\ Inventory \in Inventories
    /\ entry \in {"script", "extract", "validate", "load"}
    /\ data_directory \in Directories
    /\ environ \in Environments
    /\ implicit_commit \in BOOLEAN
    /\ entry = "script" => implicit_commit
    /\ entry = "extract" =>
          /\ data_directory.exists
          /\ environ = RequiredEnv
          /\ implicit_commit
    /\ entry = "validate" =>
          /\ data_directory
               = [exists |-> TRUE,
                  files |-> <<JsonFile(Str("ACER"), <<full_A1, soft_A2>>)>>]
          /\ environ = RequiredEnv
          /\ implicit_commit
    /\ entry = "load" =>
          /\ data_directory.exists
          /\ Loadable(data_directory.files)
          /\ environ = RequiredEnv
    /\ products \in
          CASE entry = "validate" -> GateTables
            [] entry = "load" -> LoadTables(data_directory.files)
            [] OTHER -> {NoTable}
    /\ conn = IF entry = "script" THEN "none" ELSE "open"
    /\ connects = IF entry = "script" THEN 0 ELSE 1
    /\ pc = StartOf(entry)
    /\ raw = NoTable
    /\ validated = FALSE
    /\ issued = <<>>
    /\ txn = <<>>
    /\ truncated = FALSE
    /\ committed = FALSE
    /\ log = {}
    /\ err = "none"
    /\ before = Electronics
    /\ run = 1
    /\ ended = <<>>
    /\ mergeStatus = "none"
    /\ now = 1
    /\ ImportIdle

\* The record a finished run leaves in ended.
Outcome(e, table, connection, done) ==
    [err |-> e, rows |-> table.rows, exists |-> table.exists,
     conn |-> connection, committed |-> done, at |-> pc, was |-> before.rows]

\* An uncaught exception e ends the run at the current statement.
Abort(e, events) ==
    /\ pc' = "exit"
    /\ err' = e
    /\ log' = log \cup events
    /\ ended' = Append(ended, Outcome(e, Electronics, conn, committed))

\* Line 17 of the script: logger = configure_logging(...), a name that the
\* def of line 40 binds only later. The script ends here with NameError,
\* before the directory test, the environment lookups and the connect of
\* lines 19-37.
ConfigureLogging ==
    /\ pc = "start"
    /\ Abort("NameError", {})
    /\ UNCHANGED <<given, inv_vars>>
    /\ UNCHANGED <<Electronics, conn, connects, products, raw, validated,
                   issued, txn, truncated, committed, run, before,
                   mergeStatus, now>>

\* Line 269: products = extract(data_directory, subset=column_subset)
Extract ==
    /\ pc = "extract"
    /\ LET got == extract(data_directory.files, column_subset)
       IN IF got.status = "ok"
          THEN /\ products' = Extracted(got)
               /\ raw' = products'
               /\ pc' = "transform"
               /\ log' = log \cup got.logged
               /\ UNCHANGED <<err, ended>>
          ELSE /\ Abort(got.status, got.logged)
               /\ UNCHANGED <<products, raw>>
    /\ UNCHANGED <<given, inv_vars>>
    /\ UNCHANGED <<Electronics, conn, connects, validated, issued, txn,
                   truncated, committed, run, before, mergeStatus, now>>

\* Line 287: products = transform(products, dtypes)
Transform ==
    /\ pc = "transform"
    /\ LET got == transform(products, dtypes)
       IN IF got.status = "ok"
          THEN /\ products' = got
               /\ pc' = "validate"
               /\ UNCHANGED <<err, log, ended>>
          ELSE /\ Abort(got.status, {})
               /\ UNCHANGED products
    /\ UNCHANGED <<given, inv_vars>>
    /\ UNCHANGED <<Electronics, conn, connects, raw, validated, issued, txn,
                   truncated, committed, run, before, mergeStatus, now>>

\* Line 290: validate(products, dtypes). The loop logs each column it
\* reaches before it asserts.
Validate ==
    /\ pc = "validate"
    /\ LET got == validate(products, dtypes)
           events == IF products.order = <<>> THEN {} ELSE {"validation"}
       IN IF got = "ok"
          THEN /\ validated' = TRUE
               /\ pc' = "call_load"
               /\ log' = log \cup events
               /\ UNCHANGED <<err, ended>>
          ELSE /\ Abort(got, events)
               /\ UNCHANGED validated
    /\ UNCHANGED <<given, inv_vars>>
    /\ UNCHANGED <<Electronics, conn, connects, products, raw, issued, txn,
                   truncated, committed, run, before, mergeStatus, now>>

\* Line 306: load(data=data, ...). The table is bound to products and no
\* name data exists: the argument raises NameError and load is not entered.
CallLoad ==
    /\ pc = "call_load"
    /\ Abort("NameError", {})
    /\ UNCHANGED <<given, inv_vars>>
    /\ UNCHANGED <<Electronics, conn, connects, products, raw, validated,
                   issued, txn, truncated, committed, run, before,
                   mergeStatus, now>>

\* Lines 194-241 of load: TRUNCATE TABLE on the module's connection.
Truncate ==
    /\ pc = "truncate"
    /\ \E outcome \in truncate_outcomes(Electronics) :
         IF outcome = "ok"
         THEN LET db == sql_truncate(Electronics, implicit_commit)
              IN /\ Electronics' = db.table
                 /\ truncated' = db.truncated
                 /\ issued' = Append(issued, "TRUNCATE")
                 /\ pc' = "insert"
                 /\ UNCHANGED <<err, log, ended>>
         ELSE /\ UNCHANGED <<Electronics, truncated, issued>>
              /\ Abort(load_raises(outcome),
                       IF outcome = "ProgrammingError" THEN {"sql"} ELSE {})
    /\ UNCHANGED <<given, inv_vars>>
    /\ UNCHANGED <<conn, connects, products, raw, validated, txn, committed,
                   run, before, mergeStatus, now>>

\* Lines 243-250 of load: insert_params is built from the rows, a row that
\* lacks a mapped column raising KeyError, and executemany sends them. The
\* rows sent are held in the connection's transaction until the commit.
Insert ==
    /\ pc = "insert"
    /\ IF Len(products.rows) > 0 /\ ~(data_columns \subseteq products.columns)
       THEN /\ Abort("KeyError", {})
            /\ UNCHANGED <<txn, issued, Electronics>>
       ELSE LET params == insert_params(products)
            IN \E outcome \in insert_outcomes(Len(params)) :
                 LET first == auto_increment(
                                  IF truncated THEN <<>> ELSE Electronics.rows,
                                  txn)
                     sent == [i \in 1..outcome.sent |->
                                inserted_row(params[i], first + i - 1, now)]
                     db == sql_insert(Electronics, txn, sent)
                 IN
                 /\ txn' = db.txn
                 /\ Electronics' = db.table
                 /\ IF outcome.result = "ok"
                    THEN /\ issued' = Append(issued, "INSERT")
                         /\ pc' = "commit"
                         /\ UNCHANGED <<err, log, ended>>
                    ELSE /\ UNCHANGED issued
                         /\ Abort(load_raises(outcome.result),
                                  IF outcome.result = "ProgrammingError"
                                  THEN {"sql"} ELSE {})
    /\ UNCHANGED <<given, inv_vars>>
    /\ UNCHANGED <<conn, connects, products, raw, validated, truncated,
                   committed, run, before, mergeStatus, now>>

\* Lines 252-254 of load: conn.commit()
Commit ==
    /\ pc = "commit"
    /\ Electronics' = sql_commit(Electronics, txn, truncated)
    /\ txn' = <<>>
    /\ truncated' = FALSE
    /\ committed' = TRUE
    /\ issued' = Append(issued, "COMMIT")
    /\ pc' = "close"
    /\ UNCHANGED <<given, inv_vars>>
    /\ UNCHANGED <<conn, connects, products, raw, validated, log, err, run,
                   before, ended, mergeStatus, now>>

\* Lines 256-257 of load: conn.close(), after which load returns.
Close ==
    /\ pc = "close"
    /\ conn' = "closed"
    /\ pc' = "exit"
    /\ ended' = Append(ended, Outcome("none", Electronics, "closed", committed))
    /\ UNCHANGED <<given, inv_vars>>
    /\ UNCHANGED <<Electronics, connects, products, raw, validated, issued,
                   txn, truncated, committed, log, err, run, before,
                   mergeStatus, now>>

\* The same is started again on the same inputs: a new process, in which
\* the work the last one left uncommitted is gone.
NewRun ==
    /\ pc = "exit"
    /\ run < MaxRuns
    /\ run' = run + 1
    /\ pc' = StartOf(entry)
    /\ conn' = IF entry = "script" THEN "none" ELSE "open"
    /\ products' = IF entry \in {"validate", "load"} THEN products ELSE NoTable
    /\ raw' = NoTable
    /\ validated' = FALSE
    /\ issued' = <<>>
    /\ txn' = <<>>
    /\ truncated' = FALSE
    /\ committed' = FALSE
    /\ log' = {}
    /\ err' = "none"
    /\ before' = Electronics
    /\ UNCHANGED <<given, inv_vars>>
    /\ now' \in {now, now + 1}
    /\ UNCHANGED <<Electronics, connects, ended, mergeStatus>>

\* UPDATE_INVENTORY executed against the two tables, after a run.
MergeInventory ==
    /\ pc = "exit"
    /\ Electronics.exists
    /\ LET got == exec_update_join(UPDATE_INVENTORY, Electronics.rows, Inventory)
       IN /\ Electronics' = [Electronics EXCEPT !.rows = got.rows]
          /\ mergeStatus' = got.status
    /\ UNCHANGED <<given, inv_vars>>
    /\ UNCHANGED <<pc, conn, connects, products, raw, validated, issued, txn,
                   truncated, committed, log, err, run, before, ended, now>>

Next ==
    \/ ConfigureLogging
    \/ Extract
    \/ Transform
    \/ Validate
    \/ CallLoad
    \/ Truncate
    \/ Insert
    \/ Commit
    \/ Close
    \/ NewRun
    \/ MergeInventory

Spec == Init /\ [][Next]_vars

-----------------------------------------------------------------------------
(* import_inventory.py: the script and its functions *)

\* The tables validate is called on: those of the declared types, one
\* whose inventory column is int64, and one with a column dtypes does not
\* name.
InventoryGateTables ==
    InventoryFrames
      \cup { Retyped(InventoryFrame(DOMAIN inventory_dtypes,
                                    <<FrameRow("ACER", "A1", 7)>>),
                     "inventory", "int64"),
             WithColumn(InventoryFrame(DOMAIN inventory_dtypes,
                                       <<FrameRow("ACER", "A1", 7)>>),
                        "upc") }

\* bb_etl.py is not run. Started is the script (python
\* import_inventory.py), or get_inventory_data on a file, or
\* clean_inventory_data on a table, or validate on a table, or load on a
\* table.
InitInventory ==
    /\ Electronics = [exists |-> TRUE,
                      rows |-> <<StoredRow(1, "ACER", "A1", Whole(5))>>]
    /\ Inventory \in StoredInventories
    /\ data_directory = [exists |-> FALSE, files |-> <<>>]
    /\ implicit_commit = TRUE
    /\ entry = "none"
    /\ pc = "idle"
    /\ conn = "none"
    /\ connects = 0
    /\ products = NoTable
    /\ raw = NoTable
    /\ validated = FALSE
    /\ issued = <<>>
    /\ txn = <<>>
    /\ truncated = FALSE
    /\ committed = FALSE
    /\ log = {}
    /\ err = "none"
    /\ before = Electronics
    /\ run = 1
    /\ ended = <<>>
    /\ mergeStatus = "none"
    /\ now = 1
    /\ inv_entry \in {"script", "get_inventory_data", "clean_inventory_data",
                      "validate", "load"}
    /\ environ \in InventoryEnvironments
    /\ inv_entry # "script" => environ = InventoryRequiredEnv
    /\ INVENTORY_FILE \in InventoryFiles
    /\ inv_entry \in {"clean_inventory_data", "validate", "load"}
          => INVENTORY_FILE = NoFile
    /\ inv_data \in CASE inv_entry \in {"clean_inventory_data", "load"}
                           -> InventoryFrames
                      [] inv_entry = "validate" -> InventoryGateTables
                      [] OTHER -> {NoTable}
    /\ inv_read = inv_data
    /\ inv_pc = "call"
    /\ inv_conn = "none"
    /\ inv_log = {}
    /\ inv_issued = <<>>
    /\ inv_err = "none"
    /\ inv_before = Inventory

\* What no statement of import_inventory.py changes.
inv_given == <<INVENTORY_FILE, inv_entry, inv_read, inv_before>>

\* python import_inventory.py: the file is compiled first, and line 101
\* is indented as no enclosing block is (IndentationError): no statement
\* of the script runs.
RunImportScript ==
    /\ inv_pc = "call"
    /\ inv_entry = "script"
    /\ inv_pc' = "exit"
    /\ inv_err' = "IndentationError"
    /\ UNCHANGED <<inv_given, inv_data, inv_conn, inv_log, inv_issued>>
    /\ UNCHANGED <<given, Electronics, pc, conn, connects, products, raw,
                   validated, issued, txn, truncated, committed, log, err,
                   run, before, ended, mergeStatus, now>>

\* get_inventory_data(file_path), lines 37-61
GetInventoryData ==
    /\ inv_pc = "call"
    /\ inv_entry = "get_inventory_data"
    /\ inv_pc' = "exit"
    /\ inv_err' = get_inventory_data(INVENTORY_FILE)
    /\ inv_log' = inv_log \cup get_inventory_data_logs(INVENTORY_FILE)
    /\ UNCHANGED <<inv_given, inv_data, inv_conn, inv_issued>>
    /\ UNCHANGED <<given, Electronics, pc, conn, connects, products, raw,
                   validated, issued, txn, truncated, committed, log, err,
                   run, before, ended, mergeStatus, now>>

\* data = clean_inventory_data(data), line 56
CleanInventoryData ==
    /\ inv_pc = "call"
    /\ inv_entry = "clean_inventory_data"
    /\ inv_data' = clean_inventory_data(inv_data)
    /\ inv_pc' = "exit"
    /\ UNCHANGED <<inv_given, inv_conn, inv_log, inv_issued, inv_err>>
    /\ UNCHANGED <<given, Electronics, pc, conn, connects, products, raw,
                   validated, issued, txn, truncated, committed, log, err,
                   run, before, ended, mergeStatus, now>>

\* validate(data, dtypes), lines 63-80: it returns None or ends with the
\* exception of the first column that fails.
InventoryValidate ==
    /\ inv_pc = "call"
    /\ inv_entry = "validate"
    /\ LET got == inventory_validate(inv_data, inventory_dtypes)
       IN inv_err' = IF got = "ok" THEN "none" ELSE got
    /\ inv_log' = inv_log \cup inventory_validate_logs(inv_data)
    /\ inv_pc' = "exit"
    /\ UNCHANGED <<inv_given, inv_data, inv_conn, inv_issued>>
    /\ UNCHANGED <<given, Electronics, pc, conn, connects, products, raw,
                   validated, issued, txn, truncated, committed, log, err,
                   run, before, ended, mergeStatus, now>>

\* load(data, column_map), lines 82-125: the body is indented with a tab
\* to line 98 and with four spaces from line 99 on, so the def is
\* rejected when compiled (IndentationError at line 101), in the file or
\* on its own: no call of load runs a statement, no connection is made
\* and nothing is sent.
InventoryLoad ==
    /\ inv_pc = "call"
    /\ inv_entry = "load"
    /\ inv_pc' = "exit"
    /\ inv_err' = "IndentationError"
    /\ UNCHANGED <<inv_given, inv_data, inv_conn, inv_log, inv_issued>>
    /\ UNCHANGED <<given, Electronics, pc, conn, connects, products, raw,
                   validated, issued, txn, truncated, committed, log, err,
                   run, before, ended, mergeStatus, now>>

NextInventory ==
    \/ RunImportScript
    \/ GetInventoryData
    \/ CleanInventoryData
    \/ InventoryValidate
    \/ InventoryLoad

SpecInventory == InitInventory /\ [][NextInventory]_vars

-----------------------------------------------------------------------------
(* Properties of transform *)

RequiredFields == {"brand", "sku", "salePrice", "highResImage"}

Complete(r) == \A c \in RequiredFields : ~isna(r[c])

SamePair(r, o) == r.brand = o.brand /\ r.sku = o.sku

\* transform has returned in the current run: raw is what it was given
\* and products what it returned.
Transformed == raw.status = "raw" /\ products.status = "ok"

\* The index of the first row of rows that has the (brand, sku) of o.
FirstOfPair(rows, o) ==
    CHOOSE i \in DOMAIN rows :
        /\ SamePair(rows[i], o)
        /\ \A j \in 1..(i - 1) : ~SamePair(rows[j], o)

\* One input row after the fills, the renames and the casts.
RowImage(r) == set_dtypes(rename(fill_missing(<<r>>), DOMAIN r), dtypes)[1]

\* C1: every row transform returns has brand, sku, salePrice and imageUrl,
\* and agrees on them with an input row in which all four are present.
TransformDropsIncomplete ==
    Transformed =>
      \A k \in DOMAIN products.rows :
        LET o == products.rows[k]
        IN /\ \A c \in {"brand", "sku", "salePrice", "imageUrl"} : ~isna(o[c])
           /\ \E i \in DOMAIN raw.rows :
                /\ Complete(raw.rows[i])
                /\ SamePair(raw.rows[i], o)
                /\ o.imageUrl = raw.rows[i].highResImage
                /\ o.salePrice = astype(raw.rows[i].salePrice, "float64")

\* C1 happens: transform returned rows for an input with an incomplete row.
IncompleteRowDropped ==
    /\ Transformed
    /\ Len(products.rows) > 0
    /\ \E i \in DOMAIN raw.rows : ~Complete(raw.rows[i])

\* C2: the rows transform returns have pairwise different (brand, sku),
\* and each is the image of the first input row that has its pair.
TransformKeepsFirstOfPair ==
    Transformed =>
      /\ \A k1, k2 \in DOMAIN products.rows :
            k1 # k2 => ~SamePair(products.rows[k1], products.rows[k2])
      /\ \A k \in DOMAIN products.rows :
            /\ \E i \in DOMAIN raw.rows : SamePair(raw.rows[i], products.rows[k])
            /\ products.rows[k]
                 = RowImage(raw.rows[FirstOfPair(raw.rows, products.rows[k])])

\* C2 happens: two complete input rows share a pair, differ otherwise, and
\* the pair is in the output.
DuplicatePairSeen ==
    /\ Transformed
    /\ \E i, j \in DOMAIN raw.rows :
         /\ i < j
         /\ SamePair(raw.rows[i], raw.rows[j])
         /\ Complete(raw.rows[i]) /\ Complete(raw.rows[j])
         /\ raw.rows[i] # raw.rows[j]
         /\ \E k \in DOMAIN products.rows :
                SamePair(raw.rows[i], products.rows[k])

SoftFields ==
    { <<"shortDescription", "description", Str("")>>,
      <<"categoryName", "categoryName", Str("Other")>>,
      <<"customerRating", "customerRating", Whole(0)>>,
      <<"customerRatingCount", "customerRatingCount", Whole(0)>>,
      <<"customerReviewCount", "customerReviewCount", Whole(0)>> }

\* C9: a complete input row that is the first of its pair is in the output,
\* and every output row holds, in each soft field, the value of its input
\* row when that is present and the field's default otherwise.
SoftFieldsKeptOrDefaulted ==
    Transformed =>
      /\ \A i \in DOMAIN raw.rows :
            (Complete(raw.rows[i]) /\ FirstOfPair(raw.rows, raw.rows[i]) = i)
              => \E k \in DOMAIN products.rows :
                    SamePair(raw.rows[i], products.rows[k])
      /\ \A k \in DOMAIN products.rows :
            \E i \in DOMAIN raw.rows :
              /\ SamePair(raw.rows[i], products.rows[k])
              /\ i = FirstOfPair(raw.rows, products.rows[k])
              /\ \A f \in SoftFields :
                    products.rows[k][f[2]]
                      = IF isna(raw.rows[i][f[1]]) THEN f[3]
                        ELSE raw.rows[i][f[1]]

\* The first input row of its pair lacks salePrice or highResImage.
FirstLacksPriceOrImage(rows, i) ==
    /\ FirstOfPair(rows, rows[i]) = i
    /\ isna(rows[i].salePrice) \/ isna(rows[i].highResImage)

\* C13: a (brand, sku) pair whose first input row lacks salePrice or
\* highResImage has no row in what transform returns, whatever the later
\* input rows of the pair hold.
FirstIncompleteHidesPair ==
    Transformed =>
      \A i \in DOMAIN raw.rows :
        FirstLacksPriceOrImage(raw.rows, i)
          => \A k \in DOMAIN products.rows :
                ~SamePair(raw.rows[i], products.rows[k])

\* C13 happens: transform returned, and a later row of such a pair has all
\* four required fields.
CompleteRowAfterIncomplete ==
    /\ Transformed
    /\ \E i, j \in DOMAIN raw.rows :
         /\ i < j
         /\ FirstLacksPriceOrImage(raw.rows, i)
         /\ SamePair(raw.rows[i], raw.rows[j])
         /\ Complete(raw.rows[j])

-----------------------------------------------------------------------------
(* Properties of the run *)

\* How the current run ended (defined when pc = "exit").
Last == ended[Len(ended)]

\* extract has been called in the current run and has returned or raised.
ExtractCalled == entry = "extract" /\ pc # "extract"

\* A file extract reads in its loop, which parses, and in which no record
\* carries some field of the column subset.
LacksSubsetField(f) ==
    /\ f.json
    /\ f.parses
    /\ \E c \in column_subset \ {"brand"} :
          \A i \in DOMAIN f.results : c \notin DOMAIN f.results[i]

\* Every file extract reads parses.
AllReadable(files) ==
    /\ files[1].parses
    /\ \A i \in DOMAIN files : files[i].json => files[i].parses

\* C14: when a file of the listing that parses carries, in none of its
\* records, some field of the column subset (an empty results list is
\* such a file), extract returns no table: the run ends in extract, with
\* KeyError when every file read parses, and this whether the file is
\* listed first (the template) or later.
MissingFieldAbortsExtract ==
    LET files == data_directory.files
    IN (ExtractCalled /\ \E i \in DOMAIN files : LacksSubsetField(files[i]))
         => /\ pc = "exit"
            /\ Last.at = "extract"
            /\ raw = NoTable
            /\ products = NoTable
            /\ err \in {"KeyError", "ValueError"}
            /\ AllReadable(files) => err = "KeyError"

\* C14 happens: the template file has every field, a later file has an
\* empty results list, and extract raised KeyError.
LaterFileLacksField ==
    LET files == data_directory.files
    IN /\ ExtractCalled
       /\ Len(files) = 2
       /\ files[1].json /\ files[1].parses
       /\ ~LacksSubsetField(files[1])
       /\ files[2].parses /\ files[2].results = <<>>
       /\ LacksSubsetField(files[2])
       /\ err = "KeyError"


\* Some column of products is not declared, or is not of its declared type.
Mismatch ==
    \E c \in products.columns :
        c \notin DOMAIN dtypes \/ products.dtypes[c] # dtypes[c]

\* C3: a statement has been executed against the destination only on a
\* table every column of which has the declared type and which validate
\* lets through, and in a run of lines 269-306 only after validate
\* returned; a run whose table has a column of another type has ended at
\* validate with an exception and has executed no statement, inserted no
\* row and committed nothing.
GateBeforeLoad ==
    /\ (issued # <<>> \/ txn # <<>>) =>
          /\ products.status = "ok"
          /\ ~Mismatch
          /\ validate(products, dtypes) = "ok"
          /\ entry # "load" => validated
    /\ (products.status = "ok" /\ Mismatch /\ pc # "validate") =>
          /\ pc = "exit"
          /\ err \in {"AssertionError", "KeyError"}
          /\ Last.at = "validate"
          /\ issued = <<>>
          /\ txn = <<>>
          /\ ~committed

\* C3 happens: validate met a column of another type and the run aborted.
MismatchAborted ==
    /\ pc = "exit"
    /\ err = "AssertionError"
    /\ Mismatch
    /\ issued = <<>>

Parses(f) == f.parses

\* C4: when the listing holds JSON files of which one does not parse and
\* the others extract without error, extract returns, has logged the
\* failure, and returns the rows of the files that parse.
MalformedFileSkipped ==
    LET files == data_directory.files
        good == SelectSeq(files, Parses)
    IN ( /\ ExtractCalled
         /\ \A i \in DOMAIN files : files[i].json
         /\ \E i \in DOMAIN files : ~files[i].parses
         /\ extract(good, column_subset).status = "ok" )
       => /\ raw.status = "raw"
          /\ "parse" \in log
          /\ raw.rows = extract(good, column_subset).rows

\* C5: a run whose data directory is missing, or which lacks a required
\* environment variable, or whose destination table does not exist, has
\* ended with an exception no later than at TRUNCATE, with the table as it
\* was when the run started, no statement executed, no row inserted and
\* nothing committed; in the first two cases it ended at the first
\* statement of the script, before connecting.
ConfigErrorChangesNothing ==
    pc = "exit" =>
      /\ (~data_directory.exists \/ ~(RequiredEnv \subseteq environ)
            \/ ~Electronics.exists)
           => /\ err # "none"
              /\ Last.at \notin {"insert", "commit", "close"}
              /\ Electronics = before
              /\ issued = <<>>
              /\ txn = <<>>
              /\ ~truncated
              /\ ~committed
      /\ (~data_directory.exists \/ ~(RequiredEnv \subseteq environ))
           => Last.at = "start" /\ connects = 0

\* C5 happens: load was called and TRUNCATE found no table.
TableMissingAtTruncate ==
    /\ entry = "load"
    /\ pc = "exit"
    /\ ~Electronics.exists
    /\ Last.at = "truncate"
    /\ "sql" \in log

\* The rows a complete load of products stores.
NewRows ==
    [i \in DOMAIN products.rows |->
        inserted_row(insert_params(products)[i], i, now)]

\* C6 as stated: a load ended by an error of TRUNCATE or INSERT has not
\* committed, and has left the table as it was (TRUNCATE failed) or empty
\* (INSERT failed).
FailedInsertLeavesEmpty ==
    (pc = "exit" /\ Last.at \in {"truncate", "insert"}) =>
       /\ err # "none"
       /\ ~committed
       /\ Last.at = "truncate" => Electronics = before
       /\ Last.at = "insert" => Electronics.rows = <<>>

\* C6, amended: the destination holds, at every moment of a run, the rows
\* it held at the start, no row (on a server where TRUNCATE commits at
\* once), or (after the commit) all rows of the new table; a load ended by
\* an error of TRUNCATE or INSERT has not committed, and has left the
\* table as it was when TRUNCATE failed, and when INSERT failed either
\* empty (TRUNCATE committed at once) or as it was (TRUNCATE was part of
\* the transaction that the end of the run undoes).
LoadLeavesNoPart ==
    /\ \/ Electronics.rows = before.rows
       \/ implicit_commit /\ Electronics.rows = <<>>
       \/ committed /\ Electronics.rows = NewRows
    /\ (pc = "exit" /\ Last.at \in {"truncate", "insert"}) =>
          /\ err # "none"
          /\ ~committed
          /\ Last.at = "truncate" => Electronics = before
          /\ Last.at = "insert" =>
                Electronics.rows = IF implicit_commit THEN <<>> ELSE before.rows

\* C6 happens: INSERT failed after some rows were sent, over a table that
\* held rows, on a server where TRUNCATE is part of the transaction.
InsertFailedMidway ==
    /\ pc = "exit"
    /\ Last.at = "insert"
    /\ Len(txn) > 0
    /\ before.rows # <<>>
    /\ ~implicit_commit
    /\ truncated

\* C7: a run that has ended, at the first statement of the script, in
\* extract, transform or validate, at the call of load, in load's
\* TRUNCATE or INSERT, or after load returned, connected once and has
\* closed the connection.
ConnectionClosedAtExit ==
    pc = "exit" => connects = 1 /\ conn = "closed"

Count(rows, r) == Cardinality({i \in DOMAIN rows : rows[i] = r})

SameContent(a, b) ==
    \A r \in Range(a) \cup Range(b) : Count(a, r) = Count(b, r)

LoadResetsQuantity ==
    /\ \A j \in DOMAIN column_map : column_map[j][2] # "Quantity"
    /\ committed =>
          \A i \in DOMAIN Electronics.rows :
              Electronics.rows[i].Quantity = Whole(99999)

\* C15 happens: a load committed rows for a (Brand, PartNumber) that the
\* table held before with another quantity.
QuantityOverwritten ==
    /\ committed
    /\ \E i \in DOMAIN Electronics.rows : \E k \in DOMAIN before.rows :
          /\ before.rows[k].Brand = Electronics.rows[i].Brand
          /\ before.rows[k].PartNumber = Electronics.rows[i].PartNumber
          /\ before.rows[k].Quantity # Whole(99999)

\* The Inventory table holds one row per row of data, in order, with its
\* brand and sku.
SnapshotStored(data) ==
    /\ Len(Inventory) = Len(data.rows)
    /\ \A i \in DOMAIN data.rows :
          /\ Inventory[i].Brand = data.rows[i].brand
          /\ Inventory[i].PartNumber = data.rows[i].sku

\* C11: a load called with a table of all five columns has, when it ends,
\* executed TRUNCATE and INSERT and committed, and the Inventory table
\* holds exactly the rows of that table.
InventoryLoadStoresSnapshot ==
    (inv_entry = "load" /\ inv_pc = "exit"
        /\ DOMAIN inventory_dtypes \subseteq inv_data.columns)
      => /\ inv_err = "none"
         /\ inv_issued = <<"TRUNCATE", "INSERT", "COMMIT">>
         /\ SnapshotStored(inv_data)

\* C12: get_inventory_data called on a file that exists returns, and
\* clean_inventory_data returns the table it was given, with its columns
\* and rows.
GetInventoryDataPassesThrough ==
    /\ (inv_entry = "get_inventory_data" /\ inv_pc = "exit"
          /\ INVENTORY_FILE.exists)
         => inv_err = "none"
    /\ (inv_entry = "clean_inventory_data" /\ inv_pc = "exit")
         => inv_data = inv_read

\* The Electronics rows after a merge, as C10 states it.
MergedQuantity(rows, inventory) ==
    [i \in DOMAIN rows |->
        LET match == {j \in DOMAIN inventory :
                         /\ inventory[j].Brand = rows[i].Brand
                         /\ inventory[j].PartNumber = rows[i].PartNumber}
        IN IF match = {} THEN rows[i]
           ELSE [rows[i] EXCEPT
                   !.Quantity = sql_int(inventory[CHOOSE j \in match : TRUE].Quantity)]]

\* C10: the merge sets the Quantity of every Electronics row whose
\* (Brand, PartNumber) is in Inventory to the Inventory quantity and changes
\* nothing else.
MergeSetsMatchedQuantity ==
    [][MergeInventory =>
         Electronics'.rows = MergedQuantity(Electronics.rows, Inventory)]_vars

====
